---- MODULE Spec2Model ----
(***************************************************************************)
(* Book Marketplace API (src/main.py, src/schemas.py): the request         *)
(* handlers, the payload schemas, the public-view mapper and the document  *)
(* store they talk to.                                                     *)
(*                                                                         *)
(* Texts that the code takes apart (titles, authors, isbns, identifiers)   *)
(* are sequences of one-character strings.  Texts the code only compares   *)
(* for equality (names, emails, password hashes, labels) are strings.      *)
(* EmailStr normalisation is applied to every email before it is stored or *)
(* looked up, so emails stand for their normalised form.                   *)
(***************************************************************************)
EXTENDS Integers, Sequences, FiniteSets, TLC

\* ------------------------------------------------------------------ bounds
MaxUsers == 2
MaxListings == 2
\* Width of an identifier's text (24 for a bson ObjectId).
OidTextLen == 2
\* The first identifier the store hands out.
OidSeed == 10

\* ------------------------------------------------------------ value space
\* Python's None where a document (dict) is expected.
None == [NoneType |-> TRUE]
\* Python's None where a text is expected: no character is "<None>".
NoneText == <<"<None>">>
\* The empty dict.
EmptyDoc == <<>>

Names == {"Ann"}
ValidEmails == {"a@x.io", "b@x.io"}
\* A text that EmailStr rejects.
BadEmail == "not-an-email"
Hashes == {"h1", "h2"}
\* The books offered: title, author and optional isbn.
Books ==
  {[title |-> <<"D", "u">>, author |-> <<"H">>, isbn |-> NoneText],
   [title |-> <<"d", "U", "n">>, author |-> <<"n">>, isbn |-> <<"9", "X">>]}
Prices == {-1, 5}
Conditions == {"Good"}
\* Query-string filters of list_listings: absent, empty, or plain letters.
TitleFilters == {NoneText, <<"d", "u">>, <<"N">>}
AuthorFilters == {NoneText, <<"N">>}
IsbnFilters == {NoneText, <<>>, <<"x">>}

\* Python truthiness of an Optional[str].
Truthy(t) == t # NoneText /\ t # <<>>
\* Python truthiness of a dict-or-None.
TruthyDoc(d) == d # None /\ d # EmptyDoc

\* ----------------------------------------------------------------- texts
HexChars == <<"0", "1", "2", "3", "4", "5", "6", "7", "8", "9",
              "a", "b", "c", "d", "e", "f">>
\* The letters in use, lower case then upper case, and the other characters.
LowerLetters == <<"a", "b", "c", "d", "e", "f", "h", "n", "u", "x", "z">>
UpperLetters == <<"A", "B", "C", "D", "E", "F", "H", "N", "U", "X", "Z">>
Chars ==
  {LowerLetters[i] : i \in DOMAIN LowerLetters}
    \cup {UpperLetters[i] : i \in DOMAIN UpperLetters}
    \cup {"0", "1", "2", "3", "4", "5", "6", "7", "8", "9"}

\* Case folding of one character, as a case-insensitive match applies it.
LowerChar ==
  [c \in Chars |->
     IF \E i \in DOMAIN UpperLetters : UpperLetters[i] = c
       THEN LowerLetters[CHOOSE i \in DOMAIN UpperLetters : UpperLetters[i] = c]
       ELSE c]
UpperChar ==
  [c \in Chars |->
     IF \E i \in DOMAIN LowerLetters : LowerLetters[i] = c
       THEN UpperLetters[CHOOSE i \in DOMAIN LowerLetters : LowerLetters[i] = c]
       ELSE c]

Lower(t) == [i \in 1..Len(t) |-> LowerChar[t[i]]]
Upper(t) == [i \in 1..Len(t) |-> UpperChar[t[i]]]

\* The value of a hexadecimal digit of either case, -1 for any other character.
HexVal ==
  [c \in Chars |->
     IF \E i \in 1..16 : HexChars[i] = LowerChar[c]
       THEN (CHOOSE i \in 1..16 : HexChars[i] = LowerChar[c]) - 1
       ELSE -1]

RECURSIVE HexText(_, _)
\* n as w lower-case hexadecimal digits.
HexText(n, w) ==
  IF w = 0 THEN <<>> ELSE Append(HexText(n \div 16, w - 1), HexChars[(n % 16) + 1])

RECURSIVE HexNumber(_)
HexNumber(t) ==
  IF t = <<>> THEN 0
  ELSE 16 * HexNumber(SubSeq(t, 1, Len(t) - 1)) + HexVal[t[Len(t)]]

\* str(ObjectId): the identifier as lower-case hexadecimal text.
ObjectIdStr(oid) == HexText(oid, OidTextLen)

\* Mutant: only the length of the text is looked at.
ObjectIdValid_length_only(t) ==
  /\ t # NoneText
  /\ Len(t) = OidTextLen

\* ObjectId(text) accepts exactly the hexadecimal texts of the identifier width.
ObjectIdValid(t) ==
  /\ t # NoneText
  /\ Len(t) = OidTextLen
  /\ \A i \in 1..Len(t) : HexVal[t[i]] >= 0

ObjectId(t) == HexNumber(t)

\* ------------------------------------------------------------------ state
VARIABLES
  db,        \* the store handle imported from database: "None" or "Database"
  users,     \* collection "user", in insertion order
  listings,  \* collection "listing", in insertion order
  nextOid,   \* the identifier the store assigns next
  req,       \* the request handled last
  resp,      \* its response: [status, body]
  calls,     \* the store calls it issued, in order
  fault,     \* how its last store call failed: "none", "read" or "write"
  pc,        \* concurrent requests: where each one stands
  local,     \* concurrent requests: the request each one handles
  presp,     \* concurrent requests: the response of each one
  mapIn,     \* public-view mapper: the document given
  mapOut     \* public-view mapper: the document returned

vars == <<db, users, listings, nextOid, req, resp, calls, fault, pc, local, presp,
          mapIn, mapOut>>

Faults == {"none", "read", "write"}
\* The faults a handler that only reads can meet.
ReadFaults == {"none", "read"}
Procs == {1, 2}

\* `if db`: the handle is tested for truth; None is false, and a store handle is
\* taken to be true (a driver whose handle refuses truth testing would make the
\* test itself raise).
DbTruthy(d) == d # "None"

\* ------------------------------------------------------------------ store
\* collection.find_one({field: value}): the first match, or None.
FindOne(coll, field, value) ==
  IF \E i \in 1..Len(coll) : coll[i][field] = value
    THEN coll[CHOOSE i \in 1..Len(coll) :
                /\ coll[i][field] = value
                /\ \A j \in 1..(i - 1) : coll[j][field] # value]
    ELSE None

\* collection.insert_one(data): the document is stored under a fresh identifier.
InsertOne(coll, data, oid) ==
  Append(coll, [k \in DOMAIN data \cup {"_id"} |-> IF k = "_id" THEN oid ELSE data[k]])

\* $regex with $options "i" for a pattern of plain letters: the pattern occurs in
\* the field, letter case ignored; a field that holds no text never matches.
RegexSearchI(pattern, text) ==
  /\ text # NoneText
  /\ \E i \in 1..(Len(text) - Len(pattern) + 1) :
       Lower(SubSeq(text, i, i + Len(pattern) - 1)) = Lower(pattern)

\* collection.find(filter): the documents matching every entry of the filter.
FindMany(coll, filter_q) ==
  SelectSeq(coll, LAMBDA d : \A k \in DOMAIN filter_q : RegexSearchI(filter_q[k], d[k]))

\* --------------------------------------------------------------- schemas
\* EmailStr
EmailStr(e) == e \in ValidEmails

RegisterPayload(p) == EmailStr(p.email)
LoginPayload(p) == EmailStr(p.email)
\* ListingCreate: price is any float.
ListingCreate(p) == EmailStr(p.seller_email)

\* schemas.User(...).model_dump()
User(name, email, password_hash) ==
  [name |-> name, email |-> email, password_hash |-> password_hash]

\* schemas.Listing: price has ge=0.
ListingValid(p) == p.price >= 0 /\ EmailStr(p.seller_email)

\* Mutant: the price is not carried over.
Listing_price_dropped(p) ==
  [title |-> p.title, author |-> p.author, isbn |-> p.isbn, price |-> 0,
   condition |-> p.condition, cover |-> p.cover, description |-> p.description,
   seller_email |-> p.seller_email, status |-> "active"]

\* schemas.Listing(**payload.model_dump()).model_dump(): status defaults to "active".
Listing(p) ==
  [title |-> p.title, author |-> p.author, isbn |-> p.isbn, price |-> p.price,
   condition |-> p.condition, cover |-> p.cover, description |-> p.description,
   seller_email |-> p.seller_email, status |-> "active"]

\* ---------------------------------------------------------------- mapper
\* Mutant: `id` is added but `_id` is not taken out.
to_public_keeps_internal(doc) ==
  IF ~TruthyDoc(doc) THEN doc
  ELSE IF "_id" \in DOMAIN doc
    THEN [k \in DOMAIN doc \cup {"id"} |->
            IF k = "id" THEN ObjectIdStr(doc["_id"]) ELSE doc[k]]
    ELSE doc

to_public(doc) ==
  IF ~TruthyDoc(doc) THEN doc
  ELSE IF "_id" \in DOMAIN doc
    THEN [k \in (DOMAIN doc \ {"_id"}) \cup {"id"} |->
            IF k = "id" THEN ObjectIdStr(doc["_id"]) ELSE doc[k]]
    ELSE doc

\* d = doc.copy(): the caller's document after to_public has run.
DocAfterToPublic(doc) == doc

\* ------------------------------------------------------------- responses
HTTPException(status_code, detail) == [status |-> status_code, body |-> [detail |-> detail]]
\* An exception no handler catches.
ServerError == [status |-> 500, body |-> [detail |-> "Internal Server Error"]]
\* The payload or query does not fit the endpoint's schema.
RequestValidationError == [status |-> 422, body |-> [detail |-> "Unprocessable Entity"]]
Ok(body) == [status |-> 200, body |-> body]

\* What a handler leaves behind: its response, the collections, the calls issued.
Outcome(r, us, ls, oid, cs) ==
  [resp |-> r, users |-> us, listings |-> ls, nextOid |-> oid, calls |-> cs,
   fault |-> "none"]
\* A handler that changed nothing in the store.
Answer(r, cs) == Outcome(r, users, listings, nextOid, cs)
\* A handler one of whose store calls failed: the last of cs raised.
Failed(r, cs, f) == [Answer(r, cs) EXCEPT !.fault = f]

\* Mutant: the lookup compares the name field with the email.
user_lookup_by_name(d, coll, email) ==
  IF DbTruthy(d) THEN FindOne(coll, "name", email) ELSE None

\* db["user"].find_one({"email": email}) if db else None
user_lookup(d, coll, email) == IF DbTruthy(d) THEN FindOne(coll, "email", email) ELSE None
\* The store call that lookup issues, if any.
user_lookup_calls(d) == IF DbTruthy(d) THEN <<"user.find_one">> ELSE <<>>

\* database.create_document raises when there is no store or the insert fails.
create_document_raises(d, f) == d = "None" \/ f = "write"
\* The store call create_document issues, if any.
create_document_calls(d, coll) == IF d = "None" THEN <<>> ELSE <<coll \o ".insert_one">>

\* database.get_documents raises when there is no store or the query fails.
get_documents_raises(d, f) == d = "None" \/ f = "read"
get_documents(coll, filter_q) == FindMany(coll, filter_q)

\* -------------------------------------------------------------- handlers
register_response(uid, payload) ==
  Ok([id |-> uid, name |-> payload.name, email |-> payload.email])

register(payload, f) ==
  IF DbTruthy(db) /\ f = "read" THEN Failed(ServerError, user_lookup_calls(db), f)
  ELSE LET exists == user_lookup(db, users, payload.email)
           cs == user_lookup_calls(db)
       IN IF TruthyDoc(exists)
            THEN Answer(HTTPException(400, "Email already registered"), cs)
          ELSE IF create_document_raises(db, f)
            THEN Failed(ServerError, cs \o create_document_calls(db, "user"),
                        IF db = "None" THEN "none" ELSE f)
          ELSE Outcome(register_response(ObjectIdStr(nextOid), payload),
                       InsertOne(users,
                                 User(payload.name, payload.email, payload.password_hash),
                                 nextOid),
                       listings, nextOid + 1,
                       cs \o create_document_calls(db, "user"))

\* Mutant: any stored user is let in, the hash is not compared.
login_rejects_unknown_only(user, payload) == ~TruthyDoc(user)

\* not user or user.get("password_hash") != payload.password_hash
login_rejects(user, payload) ==
  \/ ~TruthyDoc(user)
  \/ user.password_hash # payload.password_hash

login(payload, f) ==
  IF DbTruthy(db) /\ f = "read" THEN Failed(ServerError, user_lookup_calls(db), f)
  ELSE LET user == user_lookup(db, users, payload.email)
       IN IF login_rejects(user, payload)
            THEN Answer(HTTPException(401, "Invalid credentials"), user_lookup_calls(db))
            ELSE Answer(Ok([id |-> ObjectIdStr(user["_id"]), name |-> user.name,
                            email |-> user.email]),
                        user_lookup_calls(db))

create_listing(payload, f) ==
  IF DbTruthy(db) /\ f = "read" THEN Failed(ServerError, user_lookup_calls(db), f)
  ELSE LET seller == user_lookup(db, users, payload.seller_email)
           cs == user_lookup_calls(db)
       IN IF ~TruthyDoc(seller)
            THEN Answer(HTTPException(400, "Seller not found"), cs)
          ELSE IF ~ListingValid(payload)
            \* Listing(**payload.model_dump()) raises inside the handler.
            THEN Answer(ServerError, cs)
          ELSE IF create_document_raises(db, f)
            THEN Failed(ServerError, cs \o create_document_calls(db, "listing"), f)
          ELSE Outcome(Ok([id |-> ObjectIdStr(nextOid)]),
                       users, InsertOne(listings, Listing(payload), nextOid),
                       nextOid + 1,
                       cs \o create_document_calls(db, "listing"))

\* Mutant: the author filter is left out of the query.
filter_q_without_author(title, author, isbn) ==
  LET given == [title |-> title, isbn |-> isbn]
  IN [k \in {x \in DOMAIN given : Truthy(given[x])} |-> given[k]]

\* The filter list_listings builds: one regex per filter that is given and not empty.
filter_q(title, author, isbn) ==
  LET given == [title |-> title, author |-> author, isbn |-> isbn]
  IN [k \in {x \in DOMAIN given : Truthy(given[x])} |-> given[k]]

list_listings(title, author, isbn, f) ==
  IF get_documents_raises(db, f)
    THEN Failed(ServerError, IF db = "None" THEN <<>> ELSE <<"listing.find">>,
                IF db = "None" THEN "none" ELSE f)
    ELSE LET docs == get_documents(listings, filter_q(title, author, isbn))
         IN Answer(Ok([i \in 1..Len(docs) |-> to_public(docs[i])]), <<"listing.find">>)

get_listing(listing_id, f) ==
  \* db["listing"] on None, ObjectId(...) on a malformed id and a failing find_one
  \* all raise inside the try block.
  IF db = "None" THEN Answer(HTTPException(400, "Invalid ID"), <<>>)
  ELSE IF ~ObjectIdValid(listing_id) THEN Answer(HTTPException(400, "Invalid ID"), <<>>)
  ELSE IF f = "read"
    THEN Failed(HTTPException(400, "Invalid ID"), <<"listing.find_one">>, f)
  ELSE LET doc == FindOne(listings, "_id", ObjectId(listing_id))
       IN IF ~TruthyDoc(doc)
            THEN Answer(HTTPException(404, "Not found"), <<"listing.find_one">>)
            ELSE Answer(Ok(to_public(doc)), <<"listing.find_one">>)

test_database(f, envUrl, envName) ==
  LET database == IF db = "None" THEN "Not Available"
                  ELSE IF f = "read" THEN "Connected but Error"
                  ELSE "Connected & Working"
  IN Failed(Ok([backend |-> "Running",
                database |-> database,
                database_url |-> IF envUrl THEN "Set" ELSE "Not Set",
                database_name |-> IF envName THEN "Set" ELSE "Not Set",
                connection_status |-> IF db = "None" THEN "Not Connected" ELSE "Connected",
                collections |-> IF db = "None" \/ f = "read" THEN <<>>
                                ELSE <<"user", "listing">>]),
            IF db = "None" THEN <<>> ELSE <<"list_collection_names">>,
            IF db = "None" THEN "none" ELSE f)

\* ---------------------------------------------------------------- inputs
\* Well-formed payloads, and one with a malformed email for each endpoint.
RegisterInputs ==
  [name : Names, email : ValidEmails, password_hash : Hashes]
    \cup [name : Names, email : {BadEmail}, password_hash : {"h1"}]
LoginInputs ==
  [email : ValidEmails, password_hash : Hashes]
    \cup [email : {BadEmail}, password_hash : {"h1"}]
ListingInputs ==
  {[title |-> b.title, author |-> b.author, isbn |-> b.isbn, price |-> price,
    condition |-> condition, cover |-> NoneText, description |-> NoneText,
    seller_email |-> seller_email] :
     b \in Books, price \in Prices, condition \in Conditions, seller_email \in ValidEmails}
    \cup {[title |-> <<"D", "u">>, author |-> <<"H">>, isbn |-> NoneText, price |-> 5,
            condition |-> "Good", cover |-> NoneText, description |-> NoneText,
            seller_email |-> BadEmail]}
\* Path identifiers: every identifier the store can have handed out and the next
\* one, in both letter cases, and texts that are no identifier.
ListingIds ==
  LET oids == OidSeed..(OidSeed + MaxUsers + MaxListings)
  IN {ObjectIdStr(n) : n \in oids}
       \cup {Upper(ObjectIdStr(n)) : n \in oids}
       \cup {<<>>, [i \in 1..OidTextLen |-> "z"], HexText(OidSeed, OidTextLen + 1)}

\* ------------------------------------------- one request at a time (Spec)
InitStore ==
  /\ db \in {"None", "Database"}
  /\ users = <<>>
  /\ listings = <<>>
  /\ nextOid = OidSeed
  /\ req = [op |-> "none"]
  /\ resp = [status |-> 0, body |-> EmptyDoc]
  /\ calls = <<>>
  /\ fault = "none"
  /\ pc = [p \in Procs |-> "idle"]
  /\ local = [p \in Procs |-> [op |-> "none"]]
  /\ presp = [p \in Procs |-> None]

Init ==
  /\ InitStore
  /\ mapIn = None
  /\ mapOut = None

\* The handler's outcome becomes the state; the collections stay within bounds.
Respond(outcome) ==
  \E out \in {outcome} :
  /\ Len(out.users) <= MaxUsers
  /\ Len(out.listings) <= MaxListings
  /\ fault' = out.fault
  /\ resp' = out.resp
  /\ users' = out.users
  /\ listings' = out.listings
  /\ nextOid' = out.nextOid
  /\ calls' = out.calls
  /\ UNCHANGED <<db, pc, local, presp, mapIn, mapOut>>

Rejected == Answer(RequestValidationError, <<>>)

Register ==
  \E payload \in RegisterInputs, f \in Faults :
    /\ req' = [op |-> "register", payload |-> payload]
    /\ Respond(IF RegisterPayload(payload) THEN register(payload, f) ELSE Rejected)

Login ==
  \E payload \in LoginInputs, f \in ReadFaults :
    /\ req' = [op |-> "login", payload |-> payload]
    /\ Respond(IF LoginPayload(payload) THEN login(payload, f) ELSE Rejected)

CreateListing ==
  \E payload \in ListingInputs, f \in Faults :
    /\ req' = [op |-> "create_listing", payload |-> payload]
    /\ Respond(IF ListingCreate(payload) THEN create_listing(payload, f) ELSE Rejected)

ListListings ==
  \E title \in TitleFilters, author \in AuthorFilters, isbn \in IsbnFilters, f \in ReadFaults :
    /\ req' = [op |-> "list_listings", title |-> title, author |-> author, isbn |-> isbn]
    /\ Respond(list_listings(title, author, isbn, f))

GetListing ==
  \E listing_id \in ListingIds, f \in ReadFaults :
    /\ req' = [op |-> "get_listing", listing_id |-> listing_id]
    /\ Respond(get_listing(listing_id, f))

TestDatabase ==
  \E f \in ReadFaults, envUrl \in BOOLEAN, envName \in BOOLEAN :
    /\ req' = [op |-> "test_database"]
    /\ Respond(test_database(f, envUrl, envName))

Next ==
  \/ Register
  \/ Login
  \/ CreateListing
  \/ ListListings
  \/ GetListing
  \/ TestDatabase

Spec == Init /\ [][Next]_vars

\* ------------------------------------- requests that interleave (SpecConc)
\* A request is a sequence of store calls; another request's calls may come
\* between two of them.  register and create_listing each make two: the lookup
\* (lines 86, 117) and the insert (lines 89, 121).

\* register up to its lookup: the response if it ends there, else None.
register_check(payload, us) ==
  IF TruthyDoc(user_lookup(db, us, payload.email))
    THEN HTTPException(400, "Email already registered")
    ELSE None

\* Mutant: the insert refuses an email that is stored by now.
register_insert_rechecking(payload, us, oid) ==
  IF create_document_raises(db, "none")
    THEN [resp |-> ServerError, users |-> us]
  ELSE IF \E i \in 1..Len(us) : us[i].email = payload.email
    THEN [resp |-> HTTPException(400, "Email already registered"), users |-> us]
  ELSE [resp |-> register_response(ObjectIdStr(oid), payload),
        users |-> InsertOne(us, User(payload.name, payload.email, payload.password_hash),
                            oid)]

\* register from create_document on: the response and the user collection.
register_insert(payload, us, oid) ==
  IF create_document_raises(db, "none")
    THEN [resp |-> ServerError, users |-> us]
    ELSE [resp |-> register_response(ObjectIdStr(oid), payload),
          users |-> InsertOne(us, User(payload.name, payload.email, payload.password_hash),
                              oid)]

\* Mutant: the seller is not looked up.
create_listing_check_skipped(payload, us) == None

\* create_listing up to its lookup: the response if it ends there, else None.
create_listing_check(payload, us) ==
  IF ~TruthyDoc(user_lookup(db, us, payload.seller_email))
    THEN HTTPException(400, "Seller not found")
    ELSE None

\* create_listing from Listing(...) on: the response and the listing collection.
create_listing_insert(payload, ls, oid) ==
  IF ~ListingValid(payload) \/ create_document_raises(db, "none")
    THEN [resp |-> ServerError, listings |-> ls]
    ELSE [resp |-> Ok([id |-> ObjectIdStr(oid)]),
          listings |-> InsertOne(ls, Listing(payload), oid)]

InFlight(at) == Cardinality({q \in Procs : pc[q] = at})

\* Request p ends with response r.
Finish(p, r) ==
  /\ pc' = [pc EXCEPT ![p] = "idle"]
  /\ presp' = [presp EXCEPT ![p] = r]

\* Request p goes on to its second store call.
GoOn(p, at) ==
  /\ pc' = [pc EXCEPT ![p] = at]
  /\ presp' = [presp EXCEPT ![p] = None]

RegisterBegin(p) ==
  /\ pc[p] = "idle"
  /\ \E payload \in RegisterInputs :
       /\ local' = [local EXCEPT ![p] = [op |-> "register", payload |-> payload]]
       /\ IF ~RegisterPayload(payload) THEN Finish(p, RequestValidationError)
          ELSE \E r \in {register_check(payload, users)} :
                 IF r # None THEN Finish(p, r)
                 ELSE /\ Len(users) + InFlight("register_insert") < MaxUsers
                      /\ GoOn(p, "register_insert")
  /\ UNCHANGED <<db, users, listings, nextOid, req, resp, calls, fault, mapIn, mapOut>>

RegisterInsert(p) ==
  /\ pc[p] = "register_insert"
  /\ \E out \in {register_insert(local[p].payload, users, nextOid)} :
       /\ users' = out.users
       /\ nextOid' = IF out.users = users THEN nextOid ELSE nextOid + 1
       /\ Finish(p, out.resp)
  /\ UNCHANGED <<db, listings, local, req, resp, calls, fault, mapIn, mapOut>>

CreateListingBegin(p) ==
  /\ pc[p] = "idle"
  /\ \E payload \in ListingInputs :
       /\ local' = [local EXCEPT ![p] = [op |-> "create_listing", payload |-> payload]]
       /\ IF ~ListingCreate(payload) THEN Finish(p, RequestValidationError)
          ELSE \E r \in {create_listing_check(payload, users)} :
                 IF r # None THEN Finish(p, r)
                 ELSE /\ Len(listings) + InFlight("create_listing_insert") < MaxListings
                      /\ GoOn(p, "create_listing_insert")
  /\ UNCHANGED <<db, users, listings, nextOid, req, resp, calls, fault, mapIn, mapOut>>

CreateListingInsert(p) ==
  /\ pc[p] = "create_listing_insert"
  /\ \E out \in {create_listing_insert(local[p].payload, listings, nextOid)} :
       /\ listings' = out.listings
       /\ nextOid' = IF out.listings = listings THEN nextOid ELSE nextOid + 1
       /\ Finish(p, out.resp)
  /\ UNCHANGED <<db, users, local, req, resp, calls, fault, mapIn, mapOut>>

NextConc ==
  \E p \in Procs :
    \/ RegisterBegin(p)
    \/ RegisterInsert(p)
    \/ CreateListingBegin(p)
    \/ CreateListingInsert(p)

SpecConc == Init /\ [][NextConc]_vars

\* ------------------------------------ the mapper on its own (SpecMapper)
\* Documents a caller can hand to to_public: None, the empty dict, and every
\* choice of the keys _id, id, title and price.
MapperKeys == {"_id", "id", "title", "price"}
MapperDocs ==
  {None} \cup
  {[k \in keys |-> full[k]] :
     keys \in SUBSET MapperKeys,
     full \in [_id : {OidSeed, 16 * OidSeed + 11},
               id : {ObjectIdStr(OidSeed), <<"z">>},
               title : {<<"D", "u">>, <<"d", "U", "n">>},
               price : {0, 5}]}

InitMapper ==
  /\ InitStore
  /\ mapIn \in MapperDocs
  /\ mapOut = None

\* One call: the argument, what is returned, and the argument afterwards.
ToPublic ==
  /\ mapOut = None
  /\ mapOut' = [arg |-> mapIn, ret |-> to_public(mapIn)]
  /\ mapIn' = DocAfterToPublic(mapIn)
  /\ UNCHANGED <<db, users, listings, nextOid, req, resp, calls, fault, pc, local, presp>>

NextMapper == ToPublic

SpecMapper == InitMapper /\ [][NextMapper]_vars

\* ================================================================ claims
\* The named responses of the error taxonomy.
DuplicateEmail == [status |-> 400, body |-> [detail |-> "Email already registered"]]
InvalidCredentials == [status |-> 401, body |-> [detail |-> "Invalid credentials"]]
SellerNotFound == [status |-> 400, body |-> [detail |-> "Seller not found"]]
MalformedId == [status |-> 400, body |-> [detail |-> "Invalid ID"]]
NotFound == [status |-> 404, body |-> [detail |-> "Not found"]]

\* The request handled last met a store that is there and whose calls succeeded.
WorkingStore == db = "Database" /\ fault = "none"

EmailStored(us, email) == \E i \in 1..Len(us) : us[i].email = email

\* ---- C1
C1_RegisterStep ==
  (/\ req'.op = "register"
   /\ RegisterPayload(req'.payload)
   /\ db = "Database"
   /\ fault' = "none")
  => IF EmailStored(users, req'.payload.email)
       THEN resp' = DuplicateEmail /\ users' = users
       ELSE /\ Len(users') = Len(users) + 1
            /\ SubSeq(users', 1, Len(users)) = users
            /\ users'[Len(users')].name = req'.payload.name
            /\ users'[Len(users')].email = req'.payload.email
            /\ users'[Len(users')].password_hash = req'.payload.password_hash
            /\ resp'.status = 200
            /\ DOMAIN resp'.body = {"id", "name", "email"}
            /\ resp'.body.id # <<>>
            /\ resp'.body.name = req'.payload.name
            /\ resp'.body.email = req'.payload.email

NoDuplicateEmails ==
  \A i, j \in 1..Len(users) : users[i].email = users[j].email => i = j

\* C1: with requests handled one at a time against a working store, a register
\* whose email is already stored answers DuplicateEmail (400) and leaves the user
\* collection as it was; a register whose email is not stored appends exactly one
\* user with the given name, email and password_hash and answers {id, name, email}
\* with a non-empty id and no password hash; so no two stored users share an email.
C1_RegisterUnique == [][C1_RegisterStep]_vars /\ []NoDuplicateEmails

\* C1 witness: a second registration of a stored email has been refused.
C1_Witness ==
  /\ req.op = "register"
  /\ resp = DuplicateEmail
  /\ EmailStored(users, req.payload.email)
  /\ WorkingStore

C3_NegativePriceRejectedEarly ==
  (req.op = "create_listing" /\ req.payload.price < 0 /\ db = "Database")
  => /\ calls = <<>>
     /\ resp = RequestValidationError

\* ---- C5
\* The texts that are store identifiers: hexadecimal digits, of the identifier width.
HexDigits ==
  {"0", "1", "2", "3", "4", "5", "6", "7", "8", "9",
   "a", "b", "c", "d", "e", "f", "A", "B", "C", "D", "E", "F"}
IsStoreId(t) == Len(t) = OidTextLen /\ \A i \in 1..Len(t) : t[i] \in HexDigits

C5_GetListingStep ==
  req'.op = "get_listing" => (users' = users /\ listings' = listings /\ nextOid' = nextOid)

C5_GetListingOutcome ==
  (req.op = "get_listing" /\ WorkingStore)
  => IF ~IsStoreId(req.listing_id) THEN resp = MalformedId
     ELSE IF ~\E i \in 1..Len(listings) :
                 ObjectIdStr(listings[i]["_id"]) = Lower(req.listing_id)
       THEN resp = NotFound
     ELSE /\ resp.status = 200
          /\ \E i \in 1..Len(listings) :
               /\ ObjectIdStr(listings[i]["_id"]) = Lower(req.listing_id)
               /\ resp.body = to_public(listings[i])
          /\ resp.body.id = Lower(req.listing_id)

\* C5: with a working store get_listing answers MalformedId (400) exactly when the
\* text is no store identifier, NotFound (404) exactly when it is one that no stored
\* listing has, and otherwise the public shape of the listing that has it; the
\* store is the same afterwards in all three cases.
C5_GetListing == [][C5_GetListingStep]_vars /\ []C5_GetListingOutcome

\* C5 witness: a well-formed identifier that no listing has was answered NotFound
\* while listings are stored.
C5_Witness ==
  /\ req.op = "get_listing"
  /\ WorkingStore
  /\ resp = NotFound
  /\ Len(listings) > 0

\* ---- C6
\* C6 (as stated): when the store is not there or a store call fails, register,
\* login, create_listing, list_listings and get_listing end in an unhandled server
\* error, never in a domain error or a success; only the health check answers with
\* a degraded diagnostic.
C6_StoreFailureIsServerError ==
  /\ (/\ req.op \in {"register", "login", "create_listing"}
      /\ resp # RequestValidationError
      /\ (db = "None" \/ fault # "none"))
     => resp = ServerError
  /\ (/\ req.op \in {"list_listings", "get_listing"}
      /\ (db = "None" \/ fault # "none"))
     => resp = ServerError
  /\ (/\ req.op = "test_database"
      /\ (db = "None" \/ fault # "none"))
     => (resp.status = 200 /\ resp.body.database # "Connected & Working")

\* ---- C7
\* A filter is present when it is given and not empty.
Present(flt) == flt # NoneText /\ flt # <<>>

\* flt occurs in field, letter case ignored.
OccursIn(flt, field) ==
  /\ field # NoneText
  /\ \E at \in 0..(Len(field) - Len(flt)) :
       \A j \in 1..Len(flt) : UpperChar[field[at + j]] = UpperChar[flt[j]]

Wanted(l, title, author, isbn) ==
  /\ Present(title) => OccursIn(title, l.title)
  /\ Present(author) => OccursIn(author, l.author)
  /\ Present(isbn) => OccursIn(isbn, l.isbn)

\* C7: with a working store list_listings answers 200 with exactly the stored
\* listings, in public shape and each once, in which every present filter occurs in
\* its field with letter case ignored; the filters are ANDed, an absent filter
\* constrains nothing (a listing without isbn included), and without filters every
\* stored listing is answered.
C7_ListListings ==
  (req.op = "list_listings" /\ WorkingStore)
  => LET wanted == {i \in 1..Len(listings) :
                      Wanted(listings[i], req.title, req.author, req.isbn)}
     IN /\ resp.status = 200
        /\ Len(resp.body) = Cardinality(wanted)
        /\ {resp.body[i] : i \in 1..Len(resp.body)} = {to_public(listings[i]) : i \in wanted}
        /\ (~Present(req.title) /\ ~Present(req.author) /\ ~Present(req.isbn))
             => Len(resp.body) = Len(listings)

\* C7 witness: with two filters present one of two stored listings was answered.
C7_Witness ==
  /\ req.op = "list_listings"
  /\ WorkingStore
  /\ Present(req.title)
  /\ Present(req.author)
  /\ Len(listings) = 2
  /\ resp.status = 200
  /\ Len(resp.body) = 1

\* ---- C8
C8_ListingsKept ==
  /\ Len(listings') >= Len(listings)
  /\ SubSeq(listings', 1, Len(listings)) = listings

C8_CreateStep ==
  (req'.op = "create_listing" /\ resp'.status = 200)
  => /\ Len(listings') = Len(listings) + 1
     /\ listings'[Len(listings')].title = req'.payload.title
     /\ listings'[Len(listings')].author = req'.payload.author
     /\ listings'[Len(listings')].price = req'.payload.price
     /\ resp'.body.id = ObjectIdStr(listings'[Len(listings')]["_id"])
     /\ \A i \in 1..Len(listings) : ObjectIdStr(listings[i]["_id"]) # resp'.body.id

C8_Fetchable ==
  /\ db = "Database" =>
       \A i \in 1..Len(listings) :
         LET got == get_listing(ObjectIdStr(listings[i]["_id"]), "none").resp
         IN /\ got.status = 200
            /\ got.body.title = listings[i].title
            /\ got.body.author = listings[i].author
            /\ got.body.price = listings[i].price
  /\ (req.op = "get_listing" /\ resp.status = 200) =>
       \E i \in 1..Len(listings) :
         /\ ObjectIdStr(listings[i]["_id"]) = Lower(req.listing_id)
         /\ \A j \in 1..Len(listings) : listings[j]["_id"] = listings[i]["_id"] => j = i
         /\ resp.body.title = listings[i].title
         /\ resp.body.author = listings[i].author
         /\ resp.body.price = listings[i].price

\* C8: a successful create_listing stores the submitted title, author and price
\* under the id it answers, an id no earlier listing has; no request changes or
\* removes a stored listing; and get_listing of a stored listing's id answers that
\* listing's title, author and price.  So the id a create_listing answered keeps
\* fetching what was submitted, whatever requests follow.
C8_RoundTrip == [][C8_ListingsKept /\ C8_CreateStep]_vars /\ []C8_Fetchable

\* C8 witness: the listing created first was fetched by its id after a second one
\* was created.
C8_Witness ==
  /\ req.op = "get_listing"
  /\ resp.status = 200
  /\ Len(listings) = 2
  /\ resp.body.id = ObjectIdStr(listings[1]["_id"])
  /\ listings[1].title # listings[2].title

\* ---- C9
StoredDoc(d) == TruthyDoc(d) /\ "_id" \in DOMAIN d

C9_Common ==
  mapOut # None =>
    /\ mapIn = mapOut.arg
    /\ ~TruthyDoc(mapOut.arg) => mapOut.ret = mapOut.arg
    /\ StoredDoc(mapOut.arg) =>
         /\ "_id" \notin DOMAIN mapOut.ret
         /\ "id" \in DOMAIN mapOut.ret
         /\ mapOut.ret["id"] = HexText(mapOut.arg["_id"], OidTextLen)
         /\ ObjectIdValid(mapOut.ret["id"])
         /\ ObjectId(mapOut.ret["id"]) = mapOut.arg["_id"]

\* C9 (as stated): to_public of a stored document answers no `_id`, an `id` that is
\* the text of the internal identifier, and every other field of the input with its
\* value, a field named `id` included; an absent input maps to itself and the input
\* is not modified.
C9_AsStated ==
  /\ C9_Common
  /\ (mapOut # None /\ StoredDoc(mapOut.arg)) =>
       \A k \in DOMAIN mapOut.arg \ {"_id"} :
         k \in DOMAIN mapOut.ret /\ mapOut.ret[k] = mapOut.arg[k]

\* C9 (amended): to_public of a stored document answers no `_id`, an `id` that is
\* the text of the internal identifier, and every other field of the input except
\* one named `id` with its value; an input field named `id` is replaced by that
\* text; no other field is added; an absent input maps to itself and the input is
\* not modified.
C9_ToPublic ==
  /\ C9_Common
  /\ (mapOut # None /\ StoredDoc(mapOut.arg)) =>
       /\ DOMAIN mapOut.ret = (DOMAIN mapOut.arg \ {"_id"}) \cup {"id"}
       /\ \A k \in DOMAIN mapOut.arg \ {"_id", "id"} : mapOut.ret[k] = mapOut.arg[k]

\* C9 witness: a stored document that has a field `id` of its own, and a title,
\* went through the mapper.
C9_Witness ==
  /\ mapOut # None
  /\ StoredDoc(mapOut.arg)
  /\ {"id", "title"} \subseteq DOMAIN mapOut.arg
  /\ mapOut.arg["id"] # mapOut.ret["id"]
  /\ mapOut.ret["title"] = mapOut.arg["title"]

\* ---- C4 and C10: requests that interleave
\* Request p took the step.
Stepped(p) == <<pc[p], local[p], presp[p]>> # <<pc'[p], local'[p], presp'[p]>>

SellersStored ==
  \A i \in 1..Len(listings) : EmailStored(users, listings[i].seller_email)

C4_Step ==
  /\ \A p \in Procs :
       (/\ Stepped(p)
        /\ pc[p] = "idle"
        /\ local'[p].op = "create_listing"
        /\ ListingCreate(local'[p].payload))
       => /\ listings' = listings
          /\ IF EmailStored(users, local'[p].payload.seller_email)
               THEN pc'[p] = "create_listing_insert"
               ELSE pc'[p] = "idle" /\ presp'[p] = SellerNotFound
  /\ \A p \in Procs :
       (/\ pc[p] = "create_listing_insert"
        /\ pc'[p] = "idle"
        /\ presp'[p].status = 200)
       => Len(listings') = Len(listings) + 1
  /\ listings' # listings
       => /\ Len(listings') = Len(listings) + 1
          /\ SubSeq(listings', 1, Len(listings)) = listings
          /\ listings'[Len(listings')].status = "active"
          /\ EmailStored(users, listings'[Len(listings')].seller_email)
          /\ \E p \in Procs :
               /\ pc[p] = "create_listing_insert"
               /\ pc'[p] = "idle"
               /\ presp'[p].status = 200
               /\ listings'[Len(listings')].seller_email = local[p].payload.seller_email

\* C4: however register and create_listing requests interleave, every stored
\* listing's seller_email is the email of a stored user: a create_listing whose
\* seller_email no stored user has answers SellerNotFound (400) and stores nothing,
\* and a create_listing that succeeds stores exactly one listing, with status
\* "active", after its lookup found the seller.
C4_SellerExists == [][C4_Step]_vars /\ []SellersStored

\* C4 witness: a create_listing succeeded for a seller while two users are stored.
C4_Witness ==
  /\ Len(users) = 2
  /\ Len(listings) >= 1
  /\ \E p \in Procs :
       /\ local[p].op = "create_listing"
       /\ pc[p] = "idle"
       /\ presp[p] # None
       /\ presp[p].status = 200
       /\ listings[Len(listings)].seller_email = local[p].payload.seller_email

C10_Step ==
  /\ SubSeq(users', 1, Len(users)) = users
  /\ \A p \in Procs :
       (pc[p] = "idle" /\ pc'[p] = "register_insert")
       => ~EmailStored(users, local'[p].payload.email)
  /\ \A p \in Procs :
       (pc[p] = "register_insert" /\ pc'[p] = "idle" /\ db = "Database")
       => /\ presp'[p].status = 200
          /\ Len(users') = Len(users) + 1
          /\ users'[Len(users')].email = local[p].payload.email

\* C10: register checks and inserts in two store calls.  A request passes the
\* check when no user has its email at that moment; once past it, it inserts and
\* answers success whatever has been stored since, a user with the same email
\* included; and no step removes a stored user.  So two requests with one email
\* that both pass the check leave two users with that email, for good.
C10_RegisterRace == [][C10_Step]_vars

\* C10 witness: both requests registered the same email, both answered success,
\* and two users with that email are stored.
C10_Witness ==
  /\ Len(users) = 2
  /\ users[1].email = users[2].email
  /\ \A p \in Procs :
       /\ local[p].op = "register"
       /\ local[p].payload.email = users[1].email
       /\ pc[p] = "idle"
       /\ presp[p] # None
       /\ presp[p].status = 200

====
